---- MODULE Spec2Model ----
(***************************************************************************)
(* Username registry of tungtose/learn-substrate.                          *)
(*                                                                         *)
(*   pallets/template/src/lib.rs   the pallet: storage maps Nonces and     *)
(*                                 Usernames, the dispatchable             *)
(*                                 set_username, verify_ethereum_signature *)
(*   node/src/rpc/username.rs      the RPC: username_get,                  *)
(*                                 username_get_secure and its own         *)
(*                                 verify_ethereum_signature               *)
(*   signature/src/main.rs         the signing tool                        *)
(*                                                                         *)
(* Bytes are the integers 0..255 and byte strings are sequences of them.   *)
(* The two cryptographic primitives are modelled symbolically: a Keccak    *)
(* digest is the record of its preimage (so it is collision free), and the *)
(* 64 bytes (r, s) of an ECDSA signature are the record of the key and the *)
(* digest that produced them plus the recovery bit of that signature.      *)
(***************************************************************************)
EXTENDS Integers, Sequences, FiniteSets, TLC

(***************************************************************************)
(* Bounds of the model.                                                    *)
(***************************************************************************)
\* T::MaxUsernameLength is set by the runtime; the model uses a short one.
MaxUsernameLength == 2
\* Largest nonce a submitted call carries.
MaxNonce == 2
\* Width of the nonce counter in the model (u64 in the source).
NonceBits == 4

(***************************************************************************)
(* Byte strings.                                                           *)
(***************************************************************************)
\* u64::to_string / "{}" of an integer: ASCII decimal digits, no padding.
RECURSIVE decimal_ascii(_)
decimal_ascii(n) ==
    IF n < 10 THEN <<48 + n>>
    ELSE decimal_ascii(n \div 10) \o <<48 + (n % 10)>>

\* "\x19Ethereum Signed Message:\n"
EthPrefix ==
    <<25, 69, 116, 104, 101, 114, 101, 117, 109, 32, 83, 105, 103, 110, 101,
      100, 32, 77, 101, 115, 115, 97, 103, 101, 58, 10>>

\* "set_username:"
SetUsernameTag ==
    <<115, 101, 116, 95, 117, 115, 101, 114, 110, 97, 109, 101, 58>>

\* "query_username", the challenge of the RPC's end-to-end scenario
QueryUsernameMessage ==
    <<113, 117, 101, 114, 121, 95, 117, 115, 101, 114, 110, 97, 109, 101>>

\* u8::is_ascii_alphanumeric
is_ascii_alphanumeric(c) ==
    \/ c \in 48..57
    \/ c \in 65..90
    \/ c \in 97..122

\* String::from_utf8_lossy on the bytes the model draws: an ASCII byte is
\* kept, and a byte >= 0x80 (the model only draws 0xFF, which no UTF-8
\* sequence contains) becomes U+FFFD, the three bytes EF BF BD.
RECURSIVE from_utf8_lossy(_)
from_utf8_lossy(bytes) ==
    IF bytes = <<>> THEN <<>>
    ELSE (IF Head(bytes) < 128 THEN <<Head(bytes)>> ELSE <<239, 191, 189>>)
         \o from_utf8_lossy(Tail(bytes))

(***************************************************************************)
(* Cryptography.                                                           *)
(***************************************************************************)
\* sp_io::hashing::keccak_256: the 32-byte digest, named by its preimage.
keccak_256(data) == [keccak |-> data]

\* &hash[lo..hi] of a digest.
DigestSlice(hash, lo, hi) == [of |-> hash, lo |-> lo, hi |-> hi]

\* The private keys that exist in the model.
PrivateKeys == {1, 2}

\* The 64-byte uncompressed public key (x, y) of each private key, without
\* the leading format byte.  Distinct keys differ in every byte.
PublicKeyTable ==
    [k \in PrivateKeys |-> [i \in 1..64 |-> (64 * k + i) % 256]]

PublicKey(k) == PublicKeyTable[k]

\* What recovery returns for a signature that does not fit the digest or the
\* recovery id it is tried with: the key of nobody.
StrayPublicKey == [i \in 1..64 |-> 0]

\* The recovery bit of the signature of digest `hash` made by key k (the
\* parity of the nonce point): fixed by k and the digest.
RecoveryBit(k, hash) == (k + Len(hash.keccak)) % 2

\* ecdsa::Pair::sign_prehashed: 65 bytes, (r, s) then the recovery id 0 or 1.
sign_prehashed(k, hash) ==
    [len |-> 65,
     rs  |-> [key |-> k, hash |-> hash, rid |-> RecoveryBit(k, hash)],
     v   |-> RecoveryBit(k, hash)]

\* sp_io::crypto::secp256k1_ecdsa_recover(&sig, &hash) as the source calls
\* it.  sp_io parses byte 64 as `if v > 26 { v - 27 } else { v }` and fails
\* (BadV) unless that is in 0..3; ids 2 and 3 need r + n below the field
\* prime and fail (BadSignature); ids 0 and 1 return a public key, which is
\* the signer's only for the signed digest and the signature's own bit.
secp256k1_ecdsa_recover(rs, v, hash) ==
    LET rid == IF v > 26 THEN v - 27 ELSE v
    IN  IF rid > 3 THEN [ok |-> FALSE, pubkey |-> <<>>]
        ELSE IF rid > 1 THEN [ok |-> FALSE, pubkey |-> <<>>]
        ELSE IF rid = rs.rid /\ hash = rs.hash
             THEN [ok |-> TRUE, pubkey |-> PublicKey(rs.key)]
             ELSE [ok |-> TRUE, pubkey |-> StrayPublicKey]

\* The canonical signing payload: prefix, decimal length, message.
EthMessage(message) == EthPrefix \o decimal_ascii(Len(message)) \o message

\* H160::from_slice(&keccak_256(&pubkey[1..])[12..32])
RecoveredEthAddr(pubkey) == DigestSlice(keccak_256(Tail(pubkey)), 12, 32)

(***************************************************************************)
(* The signing tool, signature/src/main.rs.                                *)
(***************************************************************************)
\* main.rs:44-48: "set_username:" + username + ":" + nonce.to_string()
ToolMessage(username, nonce) ==
    SetUsernameTag \o username \o <<58>> \o decimal_ascii(nonce)

\* main.rs:57-61: the recovery id 0..3 is emitted as 27..30.
ToolEncodeV(v) == IF v < 27 THEN v + 27 ELSE v

\* main.rs:50-81: sign the prefixed message with the key, emit the signature
\* in Ethereum form and print the address derived from the public key that
\* is recovered from that signature.
SignatureTool(k, username, nonce) ==
    LET message      == ToolMessage(username, nonce)
        message_hash == keccak_256(EthMessage(message))
        signature    == sign_prehashed(k, message_hash)
        sig_bytes    == [signature EXCEPT !.v = ToolEncodeV(@)]
        recover_v    == IF sig_bytes.v >= 27 THEN sig_bytes.v - 27
                        ELSE sig_bytes.v
        recovered    == secp256k1_ecdsa_recover(sig_bytes.rs, recover_v,
                                                message_hash)
    IN  [printed     |-> recovered.ok,
         eth_address |-> IF recovered.ok
                         THEN RecoveredEthAddr(recovered.pubkey)
                         ELSE <<>>,
         message     |-> message,
         signature   |-> sig_bytes]

\* The address the tool prints for each key.
EthAddressTable == [k \in PrivateKeys |-> RecoveredEthAddr(PublicKey(k))]

EthAddress(k) == EthAddressTable[k]

\* The addresses calls and queries are made for.
Addresses == {EthAddress(k) : k \in PrivateKeys}

\* The key whose address is a.
KeyOf(a) == CHOOSE k \in PrivateKeys : EthAddress(k) = a

(***************************************************************************)
(* The pallet, pallets/template/src/lib.rs.                                *)
(***************************************************************************)
VARIABLES
    nonces,     \* Nonces: StorageMap H160 -> u64, ValueQuery
    usernames,  \* Usernames: StorageMap H160 -> BoundedVec<u8>, OptionQuery
    events,     \* the events deposited by the extrinsic being applied
    pc,         \* "idle", "pending" (an extrinsic is in the block), "done"
    call,       \* the set_username call of that extrinsic
    result,     \* its DispatchResult
    ledger,     \* history: the successful calls, by address and nonce
    pool,       \* the extrinsics clients have submitted, not yet applied
    chain,      \* the state of Usernames at each imported block
    observed,   \* the registration calls the blocks make public
    rpc_pc,     \* "idle", "called" (an RPC request is being served), "returned"
    request,    \* that request
    response,   \* its RpcResult
    probe       \* a direct call of one of the two signature verifiers

\* Option<T>
None == <<>>
Some(x) == <<x>>

\* Nonces::<T>::get, a ValueQuery: the default 0 for an absent key.
Nonces_get(a) == IF a \in DOMAIN nonces THEN nonces[a] ELSE 0

\* Usernames::<T>::get, an OptionQuery.
Usernames_get(a) == IF a \in DOMAIN usernames THEN Some(usernames[a]) ELSE None

\* Mutant of StorageInsert: the map is replaced by the one entry.
StorageInsertAlone(map, key, value) == [x \in {key} |-> value]

\* Mutant of StorageInsert: a key that is present keeps its value.
StorageInsertIfAbsent(map, key, value) ==
    [x \in (DOMAIN map) \cup {key} |->
        IF x \in DOMAIN map THEN map[x] ELSE value]

\* StorageMap::insert
StorageInsert(map, key, value) ==
    [x \in (DOMAIN map) \cup {key} |-> IF x = key THEN value ELSE map[x]]

\* Mutant of get_nonce: an address without an entry reads as 1.
get_nonce_default_one(a) == IF a \in DOMAIN nonces THEN nonces[a] ELSE 1

\* Pallet::get_nonce
get_nonce(a) == Nonces_get(a)

\* Pallet::get_username
get_username(a) == Usernames_get(a)

\* ensure_signed(origin): only RawOrigin::Signed passes.
ensure_signed(origin) == origin.signed

\* Mutant of NonceAccepted: a nonce ahead of the stored one passes.
NonceAtLeast(nonce, expected_nonce) == nonce >= expected_nonce

\* Mutant of NonceAccepted: a nonce that was already used passes.
NonceAtMost(nonce, expected_nonce) == nonce <= expected_nonce

\* lib.rs:143
NonceAccepted(nonce, expected_nonce) == nonce = expected_nonce

\* lib.rs:145-148: Vec<u8> -> BoundedVec<u8, MaxUsernameLength>
FitsBoundedVec(username) == Len(username) <= MaxUsernameLength

\* Mutant of UsernameCharsValid: any ASCII byte passes.
UsernameCharsAscii(username) ==
    \A i \in 1..Len(username) : username[i] < 128

\* lib.rs:150-155
UsernameCharsValid(username) ==
    \A i \in 1..Len(username) :
        is_ascii_alphanumeric(username[i]) \/ username[i] = 95

\* Mutant of RegistrationMessage: no ":" between the username and the
\* nonce.
RegistrationMessageUnseparated(username, nonce) ==
    SetUsernameTag \o from_utf8_lossy(username) \o decimal_ascii(nonce)

\* lib.rs:157-161: format!("set_username:{}:{}", from_utf8_lossy(..), nonce)
RegistrationMessage(username, nonce) ==
    SetUsernameTag \o from_utf8_lossy(username) \o <<58>>
        \o decimal_ascii(nonce)

\* lib.rs:206-209: byte 64 must be 27..30 and is lowered by 27.
PalletRecoveryIdValid(v) == ~(v < 27 \/ v > 30)

\* Mutant of verify_ethereum_signature: any signature a key can be
\* recovered from passes, whatever address it recovers to.
verify_any_recovered(eth_address, message, signature) ==
    IF signature.len # 65 THEN FALSE
    ELSE IF ~PalletRecoveryIdValid(signature.v) THEN FALSE
    ELSE secp256k1_ecdsa_recover(signature.rs, signature.v - 27,
                                 keccak_256(EthMessage(message))).ok

\* Mutant of PalletRecoveryInput: only a signature shorter than 65 bytes is
\* turned away before recovery.
PalletRecoveryInputMinLen(message, signature) ==
    IF signature.len < 65 THEN None
    ELSE IF ~PalletRecoveryIdValid(signature.v) THEN None
    ELSE Some([rs |-> signature.rs, v |-> signature.v - 27,
               hash |-> keccak_256(EthMessage(message)),
               from_len |-> signature.len])

\* lib.rs:193-211: what verify_ethereum_signature hands to
\* secp256k1_ecdsa_recover, None when it returns false before the call;
\* from_len is the length of the signature the 65 bytes were taken from.
PalletRecoveryInput(message, signature) ==
    IF signature.len # 65 THEN None
    ELSE IF ~PalletRecoveryIdValid(signature.v) THEN None
    ELSE Some([rs |-> signature.rs, v |-> signature.v - 27,
               hash |-> keccak_256(EthMessage(message)),
               from_len |-> signature.len])

\* lib.rs:191-219
verify_ethereum_signature(eth_address, message, signature) ==
    LET input == PalletRecoveryInput(message, signature)
    IN  IF input = None THEN FALSE
        ELSE LET rec == secp256k1_ecdsa_recover(input[1].rs, input[1].v,
                                                input[1].hash)
             IN  IF rec.ok
                 THEN RecoveredEthAddr(rec.pubkey) = eth_address
                 ELSE FALSE

\* Mutant of NextNonce: the counter stays where it is.
NextNonceSame(nonce) == nonce

\* Mutant of NextNonce: the counter steps by two.
NextNonceByTwo(nonce) == (nonce + 2) % (2 ^ NonceBits)

\* lib.rs:169: nonce + 1 on a u64.
NextNonce(nonce) == (nonce + 1) % (2 ^ NonceBits)

\* lib.rs:172-175
UsernameSet(eth_address, username) ==
    [event |-> "UsernameSet", eth_address |-> eth_address,
     username |-> username]

\* Mutant of set_username: the nonce is stored before the signature is
\* verified.
set_username_nonce_first(origin, eth_address, username, nonce, eth_signature) ==
    LET Fail(e) == [result |-> e, nonces |-> nonces,
                    usernames |-> usernames, events |-> <<>>]
        bumped == StorageInsert(nonces, eth_address, NextNonce(nonce))
    IN  IF ~ensure_signed(origin) THEN Fail("BadOrigin")
        ELSE IF ~NonceAccepted(nonce, Nonces_get(eth_address))
             THEN Fail("InvalidNonce")
        ELSE IF ~FitsBoundedVec(username) THEN Fail("UsernameTooLong")
        ELSE IF ~UsernameCharsValid(username) THEN Fail("InvalidUsername")
        ELSE IF ~verify_ethereum_signature(
                    eth_address, RegistrationMessage(username, nonce),
                    eth_signature)
             THEN [Fail("InvalidEthereumSignature") EXCEPT !.nonces = bumped]
        ELSE [result    |-> "Ok",
              nonces    |-> bumped,
              usernames |-> StorageInsert(usernames, eth_address, username),
              events    |-> <<UsernameSet(eth_address, username)>>]

\* Mutant of set_username: the alphabet is checked before the nonce and
\* the length.
set_username_alphabet_first(origin, eth_address, username, nonce, eth_signature) ==
    LET Fail(e) == [result |-> e, nonces |-> nonces,
                    usernames |-> usernames, events |-> <<>>]
    IN  IF ~ensure_signed(origin) THEN Fail("BadOrigin")
        ELSE IF ~UsernameCharsValid(username) THEN Fail("InvalidUsername")
        ELSE IF ~NonceAccepted(nonce, Nonces_get(eth_address))
             THEN Fail("InvalidNonce")
        ELSE IF ~FitsBoundedVec(username) THEN Fail("UsernameTooLong")
        ELSE IF ~verify_ethereum_signature(
                    eth_address, RegistrationMessage(username, nonce),
                    eth_signature)
             THEN Fail("InvalidEthereumSignature")
        ELSE [result    |-> "Ok",
              nonces    |-> StorageInsert(nonces, eth_address,
                                          NextNonce(nonce)),
              usernames |-> StorageInsert(usernames, eth_address, username),
              events    |-> <<UsernameSet(eth_address, username)>>]

\* Mutant of set_username: a username another address holds is refused.
set_username_unique(origin, eth_address, username, nonce, eth_signature) ==
    LET Fail(e) == [result |-> e, nonces |-> nonces,
                    usernames |-> usernames, events |-> <<>>]
    IN  IF ~ensure_signed(origin) THEN Fail("BadOrigin")
        ELSE IF ~NonceAccepted(nonce, Nonces_get(eth_address))
             THEN Fail("InvalidNonce")
        ELSE IF ~FitsBoundedVec(username) THEN Fail("UsernameTooLong")
        ELSE IF ~UsernameCharsValid(username) THEN Fail("InvalidUsername")
        ELSE IF \E b \in DOMAIN usernames :
                   b # eth_address /\ usernames[b] = username
             THEN Fail("InvalidUsername")
        ELSE IF ~verify_ethereum_signature(
                    eth_address, RegistrationMessage(username, nonce),
                    eth_signature)
             THEN Fail("InvalidEthereumSignature")
        ELSE [result    |-> "Ok",
              nonces    |-> StorageInsert(nonces, eth_address,
                                          NextNonce(nonce)),
              usernames |-> StorageInsert(usernames, eth_address, username),
              events    |-> <<UsernameSet(eth_address, username)>>]

\* lib.rs:132-178: the dispatchable.  The outcome and the storage and
\* events it leaves behind.
set_username(origin, eth_address, username, nonce, eth_signature) ==
    LET Fail(e) == [result |-> e, nonces |-> nonces,
                    usernames |-> usernames, events |-> <<>>]
    IN  IF ~ensure_signed(origin) THEN Fail("BadOrigin")
        ELSE IF ~NonceAccepted(nonce, Nonces_get(eth_address))
             THEN Fail("InvalidNonce")
        ELSE IF ~FitsBoundedVec(username) THEN Fail("UsernameTooLong")
        ELSE IF ~UsernameCharsValid(username) THEN Fail("InvalidUsername")
        ELSE IF ~verify_ethereum_signature(
                    eth_address, RegistrationMessage(username, nonce),
                    eth_signature)
             THEN Fail("InvalidEthereumSignature")
        ELSE [result    |-> "Ok",
              nonces    |-> StorageInsert(nonces, eth_address,
                                          NextNonce(nonce)),
              usernames |-> StorageInsert(usernames, eth_address, username),
              events    |-> <<UsernameSet(eth_address, username)>>]

(***************************************************************************)
(* The calls the model submits.                                            *)
(***************************************************************************)
\* RawOrigin: None (an unsigned extrinsic) and two signed senders.  The
\* senders are ledger accounts; neither is tied to an Ethereum key.
Origins ==
    {[signed |-> FALSE, who |-> "none"],
     [signed |-> TRUE, who |-> "alice"],
     [signed |-> TRUE, who |-> "bob"]}

\* "a"
NameA == <<97>>
\* "_9..": as long as the bound allows
NameFull == [i \in 1..MaxUsernameLength |-> IF i = 1 THEN 95 ELSE 57]
\* "a:": a byte outside the alphabet
NameColon == <<97, 58>>
\* one byte that is not ASCII
NameNonAscii == <<255>>
\* "aa..": one byte longer than the bound
NameTooLong == [i \in 1..(MaxUsernameLength + 1) |-> 97]

\* ":a..": one byte longer than the bound, and a byte outside the alphabet
NameTooLongColon ==
    [i \in 1..(MaxUsernameLength + 1) |-> IF i = 1 THEN 58 ELSE 97]

ValidUsernames == {NameA, NameFull}
Usernames ==
    ValidUsernames
        \cup {NameColon, NameNonAscii, NameTooLong, NameTooLongColon}
CallNonces == 0..MaxNonce

\* A username other than u, and a nonce other than n.
OtherUsername(u) == IF u = NameA THEN NameFull ELSE NameA
OtherNonce(n) == (n + 1) % (MaxNonce + 1)
OtherKey(k) == CHOOSE j \in PrivateKeys : j # k

\* The signatures a call for (a, username, nonce) is submitted with: the
\* signing tool's; one by another key; the owner's over another username
\* and over another nonce; the tool's with byte 64 left as the raw recovery
\* id, with the other recovery bit, and raised by 27 once more; and the
\* tool's cut to 64 bytes.
CallSignatures(a, username, nonce) ==
    LET tool == SignatureTool(KeyOf(a), username, nonce).signature
    IN  {tool,
         SignatureTool(OtherKey(KeyOf(a)), username, nonce).signature,
         SignatureTool(KeyOf(a), OtherUsername(username), nonce).signature,
         SignatureTool(KeyOf(a), username, OtherNonce(nonce)).signature,
         [tool EXCEPT !.v = @ - 27],
         [tool EXCEPT !.v = 27 + (1 - (@ - 27))],
         [tool EXCEPT !.v = @ + 27],
         [tool EXCEPT !.len = 64]}

NoCall == [origin |-> [signed |-> FALSE, who |-> "-"], eth_address |-> <<>>,
           username |-> <<>>, nonce |-> 0, eth_signature |-> <<>>]

(***************************************************************************)
(* The ledger applying set_username extrinsics one after another.          *)
(***************************************************************************)
palletVars == <<nonces, usernames, events, pc, call, result, ledger>>
rpcVars == <<chain, observed, rpc_pc, request, response>>
vars == <<palletVars, pool, rpcVars, probe>>

NoRequest == [method |-> "-"]
NoResponse == [ok |-> FALSE, code |-> 0, value |-> <<>>]
NoProbe == [site |-> "-"]

Init ==
    /\ nonces = <<>>
    /\ usernames = <<>>
    /\ events = <<>>
    /\ pc = "idle"
    /\ call = NoCall
    /\ result = "none"
    /\ ledger = {}
    /\ pool = {}
    /\ chain = <<usernames>>
    /\ observed = {}
    /\ rpc_pc = "idle"
    /\ request = NoRequest
    /\ response = NoResponse
    /\ probe = NoProbe

\* A client submits a call and the ledger takes it into the block.
Submit ==
    /\ pc = "idle"
    /\ \E origin \in Origins, a \in Addresses, username \in Usernames,
          nonce \in CallNonces :
          \E sig \in CallSignatures(a, username, nonce) :
             call' = [origin |-> origin, eth_address |-> a,
                      username |-> username, nonce |-> nonce,
                      eth_signature |-> sig]
    /\ pc' = "pending"
    /\ result' = "none"
    /\ events' = <<>>
    /\ UNCHANGED <<nonces, usernames, ledger, pool, rpcVars, probe>>

\* The history of successful calls: one entry per success, numbered.
Record(led, res, c) ==
    IF res = "Ok"
    THEN led \cup {<<c.eth_address, c.nonce,
                     Cardinality({e \in led : e[1] = c.eth_address
                                               /\ e[2] = c.nonce})>>}
    ELSE led

\* The ledger dispatches the call: set_username runs as one transaction.
Dispatch ==
    /\ pc = "pending"
    /\ LET out == set_username(call.origin, call.eth_address, call.username,
                               call.nonce, call.eth_signature)
       IN  /\ nonces' = out.nonces
           /\ usernames' = out.usernames
           /\ events' = out.events
           /\ result' = out.result
           /\ ledger' = Record(ledger, out.result, call)
    /\ pc' = "done"
    /\ UNCHANGED <<call, pool, rpcVars, probe>>

\* The outcome is reported and the ledger is ready for the next extrinsic.
Finish ==
    /\ pc = "done"
    /\ pc' = "idle"
    /\ call' = NoCall
    /\ result' = "none"
    /\ events' = <<>>
    /\ UNCHANGED <<nonces, usernames, ledger, pool, rpcVars, probe>>

Next == Submit \/ Dispatch \/ Finish

Spec == Init /\ [][Next]_vars

(***************************************************************************)
(* Properties of the dispatchable.                                         *)
(***************************************************************************)
\* The step in which the ledger dispatches the pending call.
Dispatched == pc = "pending" /\ pc' = "done"

\* sig is the 65-byte signature made by private key k over the prefixed
\* message.
SignedBy(k, sig, message) ==
    /\ sig.len = 65
    /\ sig.rs.key = k
    /\ sig.rs.hash = keccak_256(EthMessage(message))
    /\ sig.rs.rid = RecoveryBit(k, sig.rs.hash)

\* The bytes of the alphabet [A-Za-z0-9_].
Alphabet == (48..57) \cup (65..90) \cup (97..122) \cup {95}

\* The record of address a changes in this step.
RecordChanges(a) ==
    \/ Nonces_get(a)' # Nonces_get(a)
    \/ Usernames_get(a)' # Usernames_get(a)

\* How many calls for address a have succeeded.
SuccessCount(a) == Cardinality({e \in ledger : e[1] = a})

\* C1: the record of an address is written only by a call that carries the
\* signature of that address's key over "set_username:<username>:<nonce>"
\* for the call's own username and nonce, and who sent the transaction
\* plays no part: with the owner's signature for the expected nonce and a
\* valid username the call of any signed sender succeeds.
C1_SignatureAuthorizes ==
    [][Dispatched =>
        /\ \A a \in Addresses :
              (RecordChanges(a) \/ (result' = "Ok" /\ call.eth_address = a))
                 => /\ call.eth_address = a
                    /\ SignedBy(KeyOf(a), call.eth_signature,
                                ToolMessage(call.username, call.nonce))
        /\ ( /\ call.origin.signed
             /\ call.nonce = Nonces_get(call.eth_address)
             /\ call.username \in ValidUsernames
             /\ call.eth_signature =
                  SignatureTool(KeyOf(call.eth_address), call.username,
                                call.nonce).signature )
           => /\ result' = "Ok"
              /\ RecordChanges(call.eth_address)
    ]_vars

\* A call sent by bob, who holds no Ethereum key, has succeeded.
C1_Witness ==
    /\ pc = "done"
    /\ result = "Ok"
    /\ call.origin.who = "bob"
    /\ call.nonce = 1

\* C2: a call of a signed sender whose nonce differs from the stored nonce
\* of its address, smaller or larger, fails with InvalidNonce.
C2_WrongNonceRejected ==
    [][(Dispatched /\ call.origin.signed
          /\ call.nonce # Nonces_get(call.eth_address))
        => result' = "InvalidNonce"]_vars

\* A call that skips ahead of the stored nonce, with the owner's signature
\* for that nonce, has been rejected.
C2_Witness ==
    /\ pc = "done"
    /\ result = "InvalidNonce"
    /\ call.nonce > Nonces_get(call.eth_address)
    /\ Nonces_get(call.eth_address) > 0
    /\ call.username \in ValidUsernames
    /\ call.eth_signature =
         SignatureTool(KeyOf(call.eth_address), call.username,
                       call.nonce).signature

\* C4: the stored nonce of an address never decreases, changes only in a
\* successful set_username for that address, then grows by exactly one, and
\* equals the number of successful registrations of the address.
C4_NonceCountsSuccesses ==
    [][\A a \in Addresses :
          /\ Nonces_get(a)' >= Nonces_get(a)
          /\ Nonces_get(a)' # Nonces_get(a)
                => /\ Dispatched
                   /\ result' = "Ok"
                   /\ call.eth_address = a
                   /\ Nonces_get(a)' = Nonces_get(a) + 1
          /\ (Dispatched /\ result' = "Ok" /\ call.eth_address = a)
                => Nonces_get(a)' = Nonces_get(a) + 1
          /\ Nonces_get(a)' = SuccessCount(a)'
    ]_vars

\* An address has registered twice while the other has registered once.
C4_Witness ==
    /\ pc = "done"
    /\ result = "Ok"
    /\ Nonces_get(call.eth_address) = 2
    /\ \E b \in Addresses : b # call.eth_address /\ Nonces_get(b) = 1

\* C5: a call that returns an error leaves both storage maps as they were,
\* for every address, and deposits no event.
C5_FailureChangesNothing ==
    [][(Dispatched /\ result' # "Ok")
        => /\ nonces' = nonces
           /\ usernames' = usernames
           /\ events' = <<>>
           /\ result' \in {"BadOrigin", "InvalidNonce", "UsernameTooLong",
                           "InvalidUsername", "InvalidEthereumSignature"}
    ]_vars

\* A call for a registered address has failed on its signature.
C5_Witness ==
    /\ pc = "done"
    /\ result = "InvalidEthereumSignature"
    /\ Nonces_get(call.eth_address) = 1
    /\ call.eth_address \in DOMAIN usernames

\* C6: after a successful call get_nonce returns the call's nonce plus one,
\* get_username returns exactly the call's username, whatever was stored
\* before, and the call deposited exactly one UsernameSet event.
C6_SuccessCommits ==
    (pc = "done" /\ result = "Ok")
        => /\ get_nonce(call.eth_address) = call.nonce + 1
           /\ get_username(call.eth_address) = Some(call.username)
           /\ events = <<[event |-> "UsernameSet",
                          eth_address |-> call.eth_address,
                          username |-> call.username]>>

\* The second registration of an address has succeeded.
C6_Witness ==
    /\ pc = "done"
    /\ result = "Ok"
    /\ call.nonce = 1
    /\ call.username = NameFull

\* C7: every stored username is within the length bound and over the
\* alphabet, and a call with a longer username stores nothing: it fails,
\* with UsernameTooLong once the origin and the nonce have been accepted.
C7_StoredUsernamesValid ==
    [][/\ \A a \in DOMAIN usernames' :
             /\ Len(usernames'[a]) <= MaxUsernameLength
             /\ \A i \in 1..Len(usernames'[a]) : usernames'[a][i] \in Alphabet
       /\ (Dispatched /\ Len(call.username) > MaxUsernameLength)
             => /\ result' # "Ok"
                /\ usernames' = usernames
                /\ (call.origin.signed
                     /\ call.nonce = Nonces_get(call.eth_address))
                      => result' = "UsernameTooLong"
    ]_vars

\* A call with a username one byte too long and the owner's signature over
\* it has been rejected, with a full-length username stored.
C7_Witness ==
    /\ pc = "done"
    /\ result = "UsernameTooLong"
    /\ call.username = NameTooLong
    /\ get_username(call.eth_address) = Some(NameFull)
    /\ call.eth_signature =
         SignatureTool(KeyOf(call.eth_address), call.username,
                       call.nonce).signature

(***************************************************************************)
(* Several clients submit to the pool; the ledger applies the pool's       *)
(* extrinsics one after another, in any order.                             *)
(***************************************************************************)
Clients == {o \in Origins : o.signed}

\* The username a client wants for every address.
ClientUsername(o) == IF o.who = "alice" THEN NameA ELSE NameFull

\* The call a client holds for address a and nonce n: validly signed by the
\* key of a over the client's username and n.
ClientCall(o, a, n) ==
    [origin |-> o, eth_address |-> a, username |-> ClientUsername(o),
     nonce |-> n,
     eth_signature |-> SignatureTool(KeyOf(a), ClientUsername(o),
                                      n).signature]

\* A client with nothing in the pool submits one of its calls.
PoolSubmit ==
    /\ \E o \in Clients, a \in Addresses, n \in CallNonces :
          /\ \A c \in pool : c.origin # o
          /\ pool' = pool \cup {ClientCall(o, a, n)}
    /\ UNCHANGED <<palletVars, rpcVars, probe>>

\* The ledger takes any extrinsic of the pool and dispatches it.
PoolApply ==
    /\ \E c \in pool :
          LET out == set_username(c.origin, c.eth_address, c.username,
                                  c.nonce, c.eth_signature)
          IN  /\ pool' = pool \ {c}
              /\ call' = c
              /\ nonces' = out.nonces
              /\ usernames' = out.usernames
              /\ events' = out.events
              /\ result' = out.result
              /\ ledger' = Record(ledger, out.result, c)
    /\ pc' = "done"
    /\ UNCHANGED <<rpcVars, probe>>

NextPool == PoolSubmit \/ PoolApply

SpecPool == Init /\ [][NextPool]_vars

\* The step in which the ledger applies an extrinsic of the pool.
Applied == Cardinality(pool') < Cardinality(pool)

\* C3: with extrinsics applied one after another in any order, a call
\* succeeds only with the stored nonce of its address and moves it to the
\* next one; every call whose nonce is not the stored one, in particular
\* every call for an (address, nonce) that already succeeded, fails with
\* InvalidNonce; so no (address, nonce) succeeds twice.
C3_OneSuccessPerNonce ==
    [][Applied =>
        \A a \in Addresses : call'.eth_address = a =>
            /\ result' = "Ok"
                  => /\ call'.nonce = Nonces_get(a)
                     /\ Nonces_get(a)' = call'.nonce + 1
            /\ call'.nonce # Nonces_get(a) => result' = "InvalidNonce"
            /\ (\E e \in ledger : e[1] = a /\ e[2] = call'.nonce)
                  => result' = "InvalidNonce"
            /\ \A e \in ledger' : e[3] = 0
    ]_vars

\* Two clients held validly signed calls for the same address and nonce:
\* one succeeded, and bob's, applied after it, has failed.
C3_Witness ==
    /\ pc = "done"
    /\ result = "InvalidNonce"
    /\ call.origin.who = "bob"
    /\ call.nonce = 1
    /\ <<call.eth_address, call.nonce, 0>> \in ledger
    /\ get_username(call.eth_address) = Some(NameA)

(***************************************************************************)
(* The RPC, node/src/rpc/username.rs.                                      *)
(***************************************************************************)
\* Largest number of blocks imported after genesis.
MaxBlocks == 2

\* username.rs:114-116: byte 64 is lowered by 27 when it is at least 27.
RpcRecoveryId(v) == IF v >= 27 THEN v - 27 ELSE v

\* username.rs:95-137, for a signature of at least 65 bytes (the slice
\* &signature[..65] takes the first 65).
rpc_verify_ethereum_signature(eth_address, message, signature) ==
    LET hash == keccak_256(EthMessage(message))
        rec  == secp256k1_ecdsa_recover(signature.rs,
                                        RpcRecoveryId(signature.v), hash)
    IN  IF rec.ok
        THEN RecoveredEthAddr(rec.pubkey) = eth_address
        ELSE FALSE

\* username.rs:111: &signature[..65] panics on a shorter slice.
RpcVerifyPanics(signature) == signature.len < 65

\* A String holding a signature: an optional prefix, then either the hex
\* digits of a byte vector or a malformed digit string.
HexString(prefix, digits, bytes) ==
    [prefix |-> prefix, digits |-> digits, bytes |-> bytes]

\* username.rs:74: hex::decode(signature.trim_start_matches("0x")).  Only
\* the lower-case prefix is trimmed; an odd number of digits and a
\* character that is no hex digit (the X of "0X" too) are errors.
hex_decode_trimmed(str) ==
    IF str.prefix \in {"", "0x", "0x0x"} /\ str.digits = "hex"
    THEN [ok |-> TRUE, bytes |-> str.bytes]
    ELSE [ok |-> FALSE, bytes |-> <<>>]

\* ErrorObjectOwned::owned(code, ..)
RpcErr(code) == [ok |-> FALSE, code |-> code, value |-> None]
RpcOk(value) == [ok |-> TRUE, code |-> 0, value |-> value]

\* username.rs:56: at.unwrap_or_else(|| self.client.info().best_hash).
\* A block hash is the block's position in the chain.
AtHash(at) == IF at = None THEN Len(chain) ELSE at[1]

\* username.rs:58-60: the runtime API get_username at a block: the pallet's
\* get_username on that block's state, an error for a block the client does
\* not have.
RuntimeGetUsername(at_hash, eth_address) ==
    IF at_hash \in 1..Len(chain)
    THEN [ok |-> TRUE,
          value |-> IF eth_address \in DOMAIN chain[at_hash]
                    THEN Some(chain[at_hash][eth_address])
                    ELSE None]
    ELSE [ok |-> FALSE, value |-> None]

\* username.rs:51-65: username_get
rpc_get_username(eth_address, at) ==
    LET got == RuntimeGetUsername(AtHash(at), eth_address)
    IN  IF ~got.ok THEN RpcErr(1)
        ELSE IF got.value = None THEN RpcOk(None)
        ELSE RpcOk(Some(from_utf8_lossy(got.value[1])))

\* Mutant of rpc_get_username_secure: the signature is verified before its
\* length is checked, so a short signature is reported as code 3.
rpc_get_username_secure_late_length(eth_address, signature, message, at) ==
    LET sig == hex_decode_trimmed(signature)
    IN  IF ~sig.ok THEN RpcErr(2)
        ELSE IF sig.bytes.len < 65
                \/ ~rpc_verify_ethereum_signature(eth_address, message,
                                                  sig.bytes)
             THEN RpcErr(3)
        ELSE IF sig.bytes.len # 65 THEN RpcErr(2)
        ELSE rpc_get_username(eth_address, at)

\* username.rs:74-85: the bytes get_username_secure hands to its verifier,
\* None when it answers code 2 before the call.
SecureVerifierInput(signature) ==
    LET sig == hex_decode_trimmed(signature)
    IN  IF ~sig.ok THEN None
        ELSE IF sig.bytes.len # 65 THEN None
        ELSE Some(sig.bytes)

\* username.rs:67-92: username_get_secure
rpc_get_username_secure(eth_address, signature, message, at) ==
    LET input == SecureVerifierInput(signature)
    IN  IF input = None THEN RpcErr(2)
        ELSE IF ~rpc_verify_ethereum_signature(eth_address, message,
                                               input[1])
             THEN RpcErr(3)
        ELSE rpc_get_username(eth_address, at)

(***************************************************************************)
(* Direct calls of the two verifiers on the same inputs.                   *)
(***************************************************************************)
\* A wallet's signature of a message: the prefixed message signed, byte 64
\* emitted as 27 + recovery id (main.rs:50-61).
SignMessage(k, message) ==
    [sign_prehashed(k, keccak_256(EthMessage(message)))
        EXCEPT !.v = ToolEncodeV(@)]

ProbeMessages == {ToolMessage(NameA, 0), QueryUsernameMessage}

\* Values of byte 64: the ids 0..3, 27..30, their neighbours, 27 + 27 and
\* above, and the largest byte.
ProbeV == {0, 1, 2, 3, 4, 26, 27, 28, 29, 30, 31, 53, 54, 55, 58, 255}

ProbeLens == {64, 65, 66}

ProbeSignatures ==
    {[len |-> l, rs |-> SignMessage(k, m).rs, v |-> v] :
        k \in PrivateKeys, m \in ProbeMessages, v \in ProbeV, l \in ProbeLens}

Verdict(b) == IF b THEN "true" ELSE "false"

\* The pallet's verifier is called.
PalletVerify ==
    /\ probe.site = "-"
    /\ \E a \in Addresses, m \in ProbeMessages, sig \in ProbeSignatures :
          probe' = [site |-> "pallet", eth_address |-> a, message |-> m,
                    signature |-> sig,
                    verdict |-> Verdict(
                        verify_ethereum_signature(a, m, sig))]
    /\ UNCHANGED <<palletVars, pool, rpcVars>>

\* The RPC's verifier is called.
RpcVerify ==
    /\ probe.site = "-"
    /\ \E a \in Addresses, m \in ProbeMessages, sig \in ProbeSignatures :
          probe' = [site |-> "rpc", eth_address |-> a, message |-> m,
                    signature |-> sig,
                    verdict |-> IF RpcVerifyPanics(sig) THEN "panic"
                                ELSE Verdict(
                                    rpc_verify_ethereum_signature(a, m, sig))]
    /\ UNCHANGED <<palletVars, pool, rpcVars>>

\* username_get_secure is called with the signature as "0x" + hex, at the
\* best block.
SecureProbe ==
    /\ probe.site = "-"
    /\ \E a \in Addresses, m \in ProbeMessages, sig \in ProbeSignatures :
          LET out == rpc_get_username_secure(a, HexString("0x", "hex", sig),
                                             m, None)
          IN  probe' = [site |-> "secure", eth_address |-> a, message |-> m,
                        signature |-> sig,
                        verdict |-> IF out.ok THEN "ok"
                                    ELSE IF out.code = 1 THEN "code 1"
                                    ELSE IF out.code = 2 THEN "code 2"
                                    ELSE "code 3"]
    /\ UNCHANGED <<palletVars, pool, rpcVars>>

\* The verdict is taken; the next call can be made.
VerifyDone ==
    /\ probe.site # "-"
    /\ probe' = NoProbe
    /\ UNCHANGED <<palletVars, pool, rpcVars>>

NextVerify == PalletVerify \/ RpcVerify \/ SecureProbe \/ VerifyDone

SpecVerify == Init /\ [][NextVerify]_vars

\* Recovery with the given id over the prefixed message yields the address.
RecoversTo(eth_address, message, rs, id) ==
    LET rec == secp256k1_ecdsa_recover(rs, id,
                                       keccak_256(EthMessage(message)))
    IN  rec.ok /\ RecoveredEthAddr(rec.pubkey) = eth_address

\* The verdict the normalisation v in 27..30 -> v - 27, v in 0..3 -> v,
\* any other v -> false gives.
NormalisedVerdict(eth_address, message, signature) ==
    IF signature.v \in 27..30
    THEN RecoversTo(eth_address, message, signature.rs, signature.v - 27)
    ELSE IF signature.v \in 0..3
    THEN RecoversTo(eth_address, message, signature.rs, signature.v)
    ELSE FALSE

\* C8: at both call sites a 65-byte signature is verified with recovery id
\* v - 27 for v in 27..30, with id v for v in 0..3, and is rejected for
\* every other v; so both sites give the same verdict on every input.
C8_SameRecoveryIdRule ==
    (probe.site \in {"pallet", "rpc"} /\ probe.signature.len = 65)
        => probe.verdict =
             Verdict(NormalisedVerdict(probe.eth_address, probe.message,
                                       probe.signature))

(***************************************************************************)
(* The RPC serving requests while blocks with registrations are imported.  *)
(***************************************************************************)
\* A block with one successful registration, signed with the signing tool
\* by the key of its address, is imported.
ImportBlock ==
    /\ Len(chain) <= MaxBlocks
    /\ \E k \in PrivateKeys, username \in ValidUsernames :
          LET tool == SignatureTool(k, username, Nonces_get(EthAddress(k)))
              c    == [origin |-> [signed |-> TRUE, who |-> "alice"],
                       eth_address |-> tool.eth_address,
                       username |-> username,
                       nonce |-> Nonces_get(EthAddress(k)),
                       eth_signature |-> tool.signature]
              out  == set_username(c.origin, c.eth_address, c.username,
                                   c.nonce, c.eth_signature)
          IN  /\ out.result = "Ok"
              /\ nonces' = out.nonces
              /\ usernames' = out.usernames
              /\ events' = out.events
              /\ ledger' = Record(ledger, out.result, c)
              /\ chain' = Append(chain, out.usernames)
              /\ observed' = observed \cup
                    {[eth_address |-> c.eth_address,
                      message |-> tool.message,
                      signature |-> tool.signature]}
    /\ UNCHANGED <<pc, call, result, pool, rpc_pc, request, response, probe>>

\* Option<BlockHash>: absent, genesis, the first block after it, and one
\* hash the client never has.
RpcAt == {None} \cup {Some(h) : h \in {1, 2, MaxBlocks + 2}}

\* The challenge, and the messages of a first and of a second registration.
RpcMessages ==
    {QueryUsernameMessage, ToolMessage(NameA, 0), ToolMessage(NameFull, 1)}

OtherMessage(m) ==
    IF m = QueryUsernameMessage THEN ToolMessage(NameA, 0)
    ELSE QueryUsernameMessage

\* The signature strings a request for address a with a message carries.
\* The owner's signature of the message in every form of the string; then,
\* as "0x" + hex: another key's signature, the owner's of another message,
\* the owner's with byte 64 as the raw id, with the other bit, raised by 27
\* again, and cut to 64 or extended to 66 bytes.
RpcSignatures(a, message) ==
    LET own == SignMessage(KeyOf(a), message)
    IN  {HexString("", "hex", own), HexString("0x", "hex", own),
         HexString("0X", "hex", own), HexString("0x", "odd", own),
         HexString("0x", "nonhex", own)}
        \cup {HexString("0x", "hex", b) :
                b \in {SignMessage(OtherKey(KeyOf(a)), message),
                       SignMessage(KeyOf(a), OtherMessage(message)),
                       [own EXCEPT !.v = @ - 27],
                       [own EXCEPT !.v = 27 + (1 - (@ - 27))],
                       [own EXCEPT !.v = @ + 27],
                       [own EXCEPT !.len = 64],
                       [own EXCEPT !.len = 66]}}

\* A client calls username_get or username_get_secure.
RpcCall ==
    /\ rpc_pc = "idle"
    /\ \E a \in Addresses, at \in RpcAt :
          \/ request' = [method |-> "username_get", eth_address |-> a,
                         signature |-> HexString("", "hex", <<>>),
                         message |-> <<>>, at |-> at]
          \/ \E m \in RpcMessages :
                \E str \in RpcSignatures(a, m) :
                   request' = [method |-> "username_get_secure",
                               eth_address |-> a, signature |-> str,
                               message |-> m, at |-> at]
    /\ rpc_pc' = "called"
    /\ response' = NoResponse
    /\ UNCHANGED <<palletVars, pool, chain, observed, probe>>

\* The server runs the method and returns.
RpcReturn ==
    /\ rpc_pc = "called"
    /\ response' =
          IF request.method = "username_get"
          THEN rpc_get_username(request.eth_address, request.at)
          ELSE rpc_get_username_secure(request.eth_address,
                                       request.signature, request.message,
                                       request.at)
    /\ rpc_pc' = "returned"
    /\ UNCHANGED <<palletVars, pool, chain, observed, request, probe>>

\* The client has the response; the next request can be made.
RpcDone ==
    /\ rpc_pc = "returned"
    /\ rpc_pc' = "idle"
    /\ request' = NoRequest
    /\ response' = NoResponse
    /\ UNCHANGED <<palletVars, pool, chain, observed, probe>>

NextRpc == ImportBlock \/ RpcCall \/ RpcReturn \/ RpcDone

SpecRpc == Init /\ [][NextRpc]_vars

\* The step in which username_get_secure returns.
SecureReturned ==
    /\ rpc_pc = "called"
    /\ rpc_pc' = "returned"
    /\ request.method = "username_get_secure"

\* The string is hex digits, bare or after "0x".
WellFormedHex(str) == str.digits = "hex" /\ str.prefix \in {"", "0x"}

\* The block a request reads: the latest when `at` is absent.
SnapshotOf(at) == IF at = None THEN Len(chain) ELSE at[1]

\* What the registry holds for the address in that block.
StoredAt(a, i) == IF a \in DOMAIN chain[i] THEN Some(chain[i][a]) ELSE None

\* C9: username_get_secure answers only for a well-formed 65-byte signature
\* made by the key of eth_address over the supplied message, and then with
\* what username_get returns for the same block; malformed hex and a wrong
\* length give code 2, then a signature that is not the address's over the
\* message gives code 3, and a failed runtime query gives code 1.
C9_SecureLookupGated ==
    [][SecureReturned =>
        LET a     == request.eth_address
            str   == request.signature
            wf    == WellFormedHex(str)
            mine  == SignedBy(KeyOf(a), str.bytes, request.message)
            known == SnapshotOf(request.at) \in 1..Len(chain)
        IN  /\ response'.ok
                  => /\ wf /\ str.bytes.len = 65 /\ mine /\ known
                     /\ response'.value = StoredAt(a, SnapshotOf(request.at))
                     /\ response' = rpc_get_username(a, request.at)
            /\ ~wf => response' = RpcErr(2)
            /\ (wf /\ str.bytes.len # 65) => response' = RpcErr(2)
            /\ (wf /\ str.bytes.len = 65 /\ ~mine) => response' = RpcErr(3)
            /\ response'.code = 1
                  => wf /\ str.bytes.len = 65 /\ mine /\ ~known
            /\ (wf /\ str.bytes = SignMessage(KeyOf(a), request.message))
                  => IF known THEN response'.ok ELSE response' = RpcErr(1)
    ]_vars

\* username_get_secure has returned the username of an older block for a
\* signature over the challenge, while the latest block holds another one.
C9_Witness ==
    /\ rpc_pc = "returned"
    /\ request.method = "username_get_secure"
    /\ request.message = QueryUsernameMessage
    /\ request.at = Some(2)
    /\ response = RpcOk(Some(NameA))
    /\ get_username(request.eth_address) = Some(NameFull)

\* C10: a message and signature that a set_username call of address a made
\* public are never accepted by username_get_secure for a.
C10_RegistrationSignatureRejected ==
    [][(SecureReturned
          /\ \E o \in observed :
                /\ o.eth_address = request.eth_address
                /\ o.message = request.message
                /\ o.signature = request.signature.bytes)
        => ~response'.ok]_vars

(***************************************************************************)
(* Signatures of a length other than 65.                                   *)
(***************************************************************************)
\* The registration call of the probe: the first registration of NameA by a
\* signed origin, which passes every check before the signature's.
ProbeRegistration(a, sig) ==
    set_username([signed |-> TRUE, who |-> "alice"], a, NameA, 0, sig)

\* C11: a signature whose length is not 65 fails without recovery being
\* attempted: the pallet's verifier returns false and hands nothing to
\* secp256k1_ecdsa_recover, so set_username fails with
\* InvalidEthereumSignature when the earlier checks pass; username_get_secure
\* answers code 2 and hands nothing to its verifier.  What either entry
\* point hands on was taken from a signature of exactly 65 bytes.
C11_WrongLengthNeverRecovered ==
    /\ probe.site = "pallet" =>
          LET input == PalletRecoveryInput(probe.message, probe.signature)
          IN  /\ input # None => input[1].from_len = 65
              /\ probe.signature.len # 65 =>
                    /\ probe.verdict = "false"
                    /\ input = None
                    /\ ProbeRegistration(probe.eth_address,
                                         probe.signature).result
                          = "InvalidEthereumSignature"
    /\ probe.site = "secure" =>
          LET input == SecureVerifierInput(
                           HexString("0x", "hex", probe.signature))
          IN  /\ input # None =>
                    input[1].len = 65 /\ ~RpcVerifyPanics(input[1])
              /\ probe.signature.len # 65 =>
                    probe.verdict = "code 2" /\ input = None

\* A 66-byte signature whose first 65 bytes are the owner's signature of the
\* message has been refused by the pallet's verifier.
C11_Witness ==
    /\ probe.site = "pallet"
    /\ probe.signature.len = 66
    /\ probe.message = ToolMessage(NameA, 0)
    /\ RecoversTo(probe.eth_address, probe.message, probe.signature.rs,
                  probe.signature.v - 27)
    /\ probe.signature.v \in 27..30
    /\ probe.verdict = "false"

(***************************************************************************)
(* Signatures a key validly produces.                                      *)
(***************************************************************************)
\* The signature is the key of eth_address's over the prefixed message, its
\* byte 64 the recovery id as it is or raised by 27.
ValidlyProduced(eth_address, message, signature) ==
    LET made == sign_prehashed(KeyOf(eth_address),
                               keccak_256(EthMessage(message)))
    IN  /\ signature.len = 65
        /\ signature.rs = made.rs
        /\ signature.v \in {made.v, made.v + 27}

\* C12: the pallet's verifier returns true for every signature the key of
\* eth_address validly produces over the prefixed message, whether byte 64
\* carries the recovery id as 0..3 or as 27..30; the signing tool's
\* signature is one of them.
C12_ValidSignatureAccepted ==
    (probe.site = "pallet"
        /\ ValidlyProduced(probe.eth_address, probe.message, probe.signature))
    => probe.verdict = "true"

(***************************************************************************)
(* Reads.                                                                  *)
(***************************************************************************)
\* What the server answers to a request in the current state.
LookupResult(req) ==
    IF req.method = "username_get"
    THEN rpc_get_username(req.eth_address, req.at)
    ELSE rpc_get_username_secure(req.eth_address, req.signature,
                                 req.message, req.at)

\* The address has never been registered.
NeverRegistered(a) == \A e \in ledger : e[1] # a

\* C13: a call of username_get or username_get_secure, answered or failed,
\* changes nothing of the registry; the same request served again in the
\* state it leaves gets the same answer, and a lookup of an address at the
\* best block gets the same answer after a registration of another
\* address; get_nonce and get_username read 0 and nothing for an address
\* that never registered.
C13_ReadsChangeNothing ==
    [][/\ rpc_pc' # rpc_pc =>
             UNCHANGED <<nonces, usernames, events, ledger, chain>>
       /\ (rpc_pc = "called" /\ rpc_pc' = "returned") =>
             response' = LookupResult(request)'
       /\ \A a \in Addresses :
             /\ (Nonces_get(a)' = Nonces_get(a)
                    /\ Usernames_get(a)' = Usernames_get(a)) =>
                   /\ get_nonce(a)' = get_nonce(a)
                   /\ get_username(a)' = get_username(a)
                   /\ rpc_get_username(a, None)' = rpc_get_username(a, None)
             /\ NeverRegistered(a)' =>
                   get_nonce(a)' = 0 /\ get_username(a)' = None
      ]_vars

\* A lookup at the best block has returned a registered username while the
\* other address has never registered.
C13_Witness ==
    /\ rpc_pc = "returned"
    /\ request.method = "username_get"
    /\ request.at = None
    /\ response.ok /\ response.value # None
    /\ \E a \in Addresses : a # request.eth_address /\ NeverRegistered(a)

(***************************************************************************)
(* Records persist.                                                        *)
(***************************************************************************)
\* C14: a record is never deleted: an address for which get_username
\* returns a username has one, possibly another, after every step.
C14_RecordNeverDeleted ==
    [][\A a \in Addresses :
          get_username(a) # None => get_username(a)' # None]_vars

\* Both addresses hold a record and one of them has just replaced its
\* username in a second registration.
C14_Witness ==
    /\ pc = "done" /\ result = "Ok"
    /\ call.nonce = 1
    /\ get_username(call.eth_address) = Some(call.username)
    /\ \A a \in Addresses : get_username(a) # None

(***************************************************************************)
(* The order of the checks.                                                *)
(***************************************************************************)
\* The error of the first check the call fails, in the order origin, nonce,
\* length, alphabet; "-" when it passes all four.
FirstFailure(c) ==
    IF ~c.origin.signed THEN "BadOrigin"
    ELSE IF c.nonce # Nonces_get(c.eth_address) THEN "InvalidNonce"
    ELSE IF Len(c.username) > MaxUsernameLength THEN "UsernameTooLong"
    ELSE IF \E i \in 1..Len(c.username) : c.username[i] \notin Alphabet
    THEN "InvalidUsername"
    ELSE "-"

\* C15: set_username reports the first failing check in the order unsigned
\* origin, InvalidNonce, UsernameTooLong, InvalidUsername,
\* InvalidEthereumSignature, whatever later checks would fail too.
C15_ChecksInOrder ==
    [][Dispatched =>
          IF FirstFailure(call) # "-"
          THEN result' = FirstFailure(call)
          ELSE result' \in {"InvalidEthereumSignature", "Ok"}]_vars

\* A call with the stored nonce, a username within the bound that holds a
\* byte outside the alphabet, and a signature that is not the owner's has
\* failed with InvalidUsername.
C15_Witness ==
    /\ pc = "done"
    /\ result = "InvalidUsername"
    /\ call.username = NameColon
    /\ call.nonce = Nonces_get(call.eth_address)
    /\ call.nonce = 1
    /\ call.eth_signature.rs.key # KeyOf(call.eth_address)

(***************************************************************************)
(* The nonce at the end of its range.                                      *)
(***************************************************************************)
\* The largest value of the nonce's type.
NonceTypeMax == 2 ^ NonceBits - 1

\* lib.rs:169 in a build with overflow checks: nonce + 1 panics at the
\* largest nonce, the extrinsic is dropped and nothing is written; below it
\* the call runs as in every build.
set_username_overflow_checked(origin, eth_address, username, nonce, eth_signature) ==
    LET out == set_username(origin, eth_address, username, nonce,
                            eth_signature)
    IN  IF out.result = "Ok" /\ nonce = NonceTypeMax
        THEN [result |-> "Panic", nonces |-> nonces,
              usernames |-> usernames, events |-> <<>>]
        ELSE out

\* A registration signed by the signing tool is submitted for a key: with
\* the address's stored nonce, or the first registration's call (nonce 0)
\* once more.
WrapSubmit ==
    /\ pc = "idle"
    /\ \E k \in PrivateKeys, replay \in BOOLEAN :
          LET n    == IF replay THEN 0 ELSE Nonces_get(EthAddress(k))
              tool == SignatureTool(k, NameA, n)
          IN  call' = [origin |-> [signed |-> TRUE, who |-> "alice"],
                       eth_address |-> tool.eth_address,
                       username |-> NameA, nonce |-> n,
                       eth_signature |-> tool.signature]
    /\ pc' = "pending"
    /\ result' = "none"
    /\ events' = <<>>
    /\ UNCHANGED <<nonces, usernames, ledger, pool, rpcVars, probe>>

\* The ledger dispatches the call, in a build where nonce + 1 wraps or in
\* one where it is checked.
WrapDispatch ==
    /\ pc = "pending"
    /\ \E out \in {set_username(call.origin, call.eth_address,
                                 call.username, call.nonce,
                                 call.eth_signature),
                    set_username_overflow_checked(
                                 call.origin, call.eth_address,
                                 call.username, call.nonce,
                                 call.eth_signature)} :
          /\ nonces' = out.nonces
          /\ usernames' = out.usernames
          /\ events' = out.events
          /\ result' = out.result
    /\ pc' = "done"
    /\ UNCHANGED <<call, ledger, pool, rpcVars, probe>>

NextWrap == WrapSubmit \/ WrapDispatch \/ Finish

SpecWrap == Init /\ [][NextWrap]_vars

\* C16: nonce + 1 never wraps: a validly signed set_username at the largest
\* stored nonce does not leave the stored nonce at 0 or at any smaller
\* value than before.
C16_NonceNeverWraps ==
    [][(Dispatched /\ Nonces_get(call.eth_address) = NonceTypeMax
            /\ call.nonce = NonceTypeMax)
        => Nonces_get(call.eth_address)' >= NonceTypeMax]_vars

(***************************************************************************)
(* The registration message as an encoding of (username, nonce).           *)
(***************************************************************************)
\* Bytes of a username: "1" and "a" of the alphabet, ":" and a byte that is
\* not ASCII outside it.
MessageBytes == {49, 97, 58, 255}

\* Every username of at most MaxUsernameLength of these bytes, the empty
\* one included.
MessageUsernames ==
    UNION {[1..m -> MessageBytes] : m \in 0..MaxUsernameLength}

\* Every nonce of the bounded width; those from 10 on have two digits.
MessageNonces == 0..NonceTypeMax

\* lib.rs:145-155: the username passes the length and alphabet checks.
Validated(username) ==
    FitsBoundedVec(username) /\ UsernameCharsValid(username)

ValidatedPairs ==
    {p \in MessageUsernames \X MessageNonces : Validated(p[1])}

\* The message of every validated pair.
MessageTable == [p \in ValidatedPairs |-> RegistrationMessage(p[1], p[2])]

\* set_username's message is built for a username and a nonce and signed
\* by a key.
BuildMessage ==
    /\ probe.site = "-"
    /\ \E k \in PrivateKeys, u \in MessageUsernames, n \in MessageNonces :
          probe' = [site |-> "message", eth_address |-> EthAddress(k),
                    username |-> u, nonce |-> n,
                    message |-> RegistrationMessage(u, n),
                    signature |-> SignMessage(k, RegistrationMessage(u, n))]
    /\ UNCHANGED <<palletVars, pool, rpcVars>>

NextMessage == BuildMessage \/ VerifyDone

SpecMessage == Init /\ [][NextMessage]_vars

\* C17: over the validated usernames the registration message is injective
\* in (username, nonce): no other validated pair has the same message, and
\* the signature accepted for one pair is accepted for no other; a username
\* that fails validation never gets as far as the signature's check.
C17_MessageInjective ==
    probe.site = "message" =>
        IF Validated(probe.username)
        THEN /\ verify_ethereum_signature(probe.eth_address, probe.message,
                                          probe.signature)
             /\ \A p \in ValidatedPairs :
                   p # <<probe.username, probe.nonce>> =>
                      /\ MessageTable[p] # probe.message
                      /\ ~verify_ethereum_signature(
                             probe.eth_address, MessageTable[p],
                             probe.signature)
        ELSE set_username([signed |-> TRUE, who |-> "alice"],
                          probe.eth_address, probe.username, probe.nonce,
                          probe.signature).result
                \notin {"InvalidEthereumSignature", "Ok"}

\* The message of ("1", 11) has been built: without the separator it would
\* be that of ("11", 1).
C17_Witness ==
    /\ probe.site = "message"
    /\ probe.username = <<49>>
    /\ probe.nonce = 11
    /\ <<<<49, 49>>, 1>> \in ValidatedPairs

(***************************************************************************)
(* Nonce and username of an address.                                       *)
(***************************************************************************)
\* C18: in every state an address has a username stored exactly when its
\* stored nonce is at least 1.
C18_UsernameIffRegistered ==
    \A a \in Addresses : (get_username(a) # None) <=> (get_nonce(a) >= 1)

\* A call for an address that never registered has failed at the signature
\* while the other address has registered twice.
C18_Witness ==
    /\ pc = "done"
    /\ result = "InvalidEthereumSignature"
    /\ get_nonce(call.eth_address) = 0
    /\ get_username(call.eth_address) = None
    /\ \E a \in Addresses : get_nonce(a) = 2 /\ get_username(a) # None

(***************************************************************************)
(* One address's call and the other addresses' records.                    *)
(***************************************************************************)
\* The outcome of a call as its arguments and the stored nonce of its own
\* address alone decide it.
OwnOutcome(c) ==
    IF FirstFailure(c) # "-" THEN FirstFailure(c)
    ELSE IF /\ SignedBy(KeyOf(c.eth_address), c.eth_signature,
                        ToolMessage(c.username, c.nonce))
            /\ c.eth_signature.v = 27 + c.eth_signature.rs.rid
    THEN "Ok"
    ELSE "InvalidEthereumSignature"

\* C19: a dispatch of set_username for an address leaves the nonce and the
\* username of every other address as they were, and its outcome is decided
\* by its arguments and its own address's nonce, whatever the other
\* addresses have stored, the same username included.
C19_OtherAddressesUntouched ==
    [][Dispatched =>
          /\ \A b \in Addresses :
                b # call.eth_address =>
                   /\ Nonces_get(b)' = Nonces_get(b)
                   /\ Usernames_get(b)' = Usernames_get(b)
          /\ DOMAIN nonces' \subseteq DOMAIN nonces \cup {call.eth_address}
          /\ DOMAIN usernames'
                \subseteq DOMAIN usernames \cup {call.eth_address}
          /\ result' = OwnOutcome(call)]_vars

\* An address has registered the username the other address holds, and the
\* other address still holds it.
C19_Witness ==
    /\ pc = "done" /\ result = "Ok"
    /\ \E b \in Addresses :
          /\ b # call.eth_address
          /\ get_username(b) = Some(call.username)
          /\ get_username(call.eth_address) = Some(call.username)
          /\ get_nonce(b) # get_nonce(call.eth_address)

(***************************************************************************)
(* The bytes of the recovered key that are hashed.                         *)
(***************************************************************************)
\* The last 20 bytes of the Keccak-256 hash of the whole key.
WholeKeyAddress(pubkey) == DigestSlice(keccak_256(pubkey), 12, 32)

\* C20: the address a verifier compares with the claimed one, and the
\* address the signing tool prints, is the last 20 bytes of the Keccak-256
\* hash of all 64 bytes of the recovered public key: an accepted address
\* is that hash of the key recovered from the signature.
C20_AllKeyBytesHashed ==
    (probe.site \in {"pallet", "rpc"} /\ probe.verdict = "true"
        /\ probe.signature.v \in 27..30)
    => LET rec == secp256k1_ecdsa_recover(
                      probe.signature.rs, probe.signature.v - 27,
                      keccak_256(EthMessage(probe.message)))
       IN  /\ rec.ok
           /\ Len(rec.pubkey) = 64
           /\ probe.eth_address = WholeKeyAddress(rec.pubkey)

====
